---------------------------- MODULE Spec2Model ----------------------------
(***************************************************************************)
(* Life calendar generator (src/life_calendar_modified.py).                *)
(*                                                                         *)
(* A datetime is modelled by its proleptic Gregorian ordinal (the number   *)
(* Python's date.toordinal() gives: 0001-01-01 is day 1, a Monday); every  *)
(* datetime the program handles is at midnight (strptime of a dd/mm/yyyy   *)
(* string, or datetime(today.year, today.month, today.day)), so adding a   *)
(* timedelta of days or weeks is integer addition on ordinals.             *)
(* None is modelled by the ordinal 0, which no date has.                   *)
(***************************************************************************)
EXTENDS Integers, Sequences, FiniteSets, TLC

-----------------------------------------------------------------------------
(* Program constants (module level of the source)                          *)

DOC_WIDTH == 1683
DOC_HEIGHT == 2383
MAX_TITLE_SIZE == 30
Y_MARGIN == 144
BOX_MARGIN == 6
MIN_AGE == 80
MAX_AGE == 100
NUM_COLUMNS == 52

BACKGROUND_COLOR == "BACKGROUND_COLOR"
BIRTHDAY_COLOUR == "BIRTHDAY_COLOUR"
NEWYEAR_COLOUR == "NEWYEAR_COLOUR"
DARKENED_COLOUR_DELTA == "DARKENED_COLOUR_DELTA"

None == 0

-----------------------------------------------------------------------------
(* datetime: the calendar arithmetic behind datetime(year, month, day),    *)
(* .year/.month/.day and .weekday(), as CPython's datetime computes them   *)

IsLeap(year) == (year % 4 = 0) /\ ((year % 100 # 0) \/ (year % 400 = 0))

DaysInMonth(year, month) ==
    IF month = 2 THEN (IF IsLeap(year) THEN 29 ELSE 28)
    ELSE IF month \in {4, 6, 9, 11} THEN 30 ELSE 31

DaysBeforeYear(year) ==
    LET y == year - 1 IN y * 365 + (y \div 4) - (y \div 100) + (y \div 400)

DaysBeforeMonthTable == <<0, 31, 59, 90, 120, 151, 181, 212, 243, 273, 304, 334>>

DaysBeforeMonth(year, month) ==
    DaysBeforeMonthTable[month] + (IF month > 2 /\ IsLeap(year) THEN 1 ELSE 0)

\* datetime(year, month, day) raises ValueError unless this holds
DateValid(year, month, day) ==
    /\ month \in 1..12
    /\ day >= 1
    /\ day <= DaysInMonth(year, month)

\* the ordinal of a valid (year, month, day)
Ymd2Ord(year, month, day) ==
    DaysBeforeYear(year) + DaysBeforeMonth(year, month) + day

\* (year, month, day) of an ordinal, in three steps.  Last: n is the day of
\* the year counted from 0; the month is estimated as (n + 50) >> 5 and
\* stepped back when the estimate overshoots.
Ord2YmdMonth(year, leapyear, n, est, pre) ==
    IF pre > n
    THEN [year |-> year, month |-> est - 1,
          day |-> n - (pre - (IF est - 1 = 2 /\ leapyear THEN 29
                              ELSE DaysInMonth(1, est - 1))) + 1]
    ELSE [year |-> year, month |-> est, day |-> n - pre + 1]

\* Second: the counts of whole 400-, 100-, 4- and 1-year cycles before the
\* date (n is what is left of the last year); on the last day of a 4- or
\* 400-year cycle the date is 31 December of the year before.
Ord2YmdYear(n400, n100, n4, n1, n) ==
    IF n1 = 4 \/ n100 = 4
    THEN [year |-> n400 * 400 + n100 * 100 + n4 * 4 + n1, month |-> 12, day |-> 31]
    ELSE Ord2YmdMonth(n400 * 400 + 1 + n100 * 100 + n4 * 4 + n1,
                      (n1 = 3) /\ ((n4 # 24) \/ (n100 = 3)),
                      n,
                      (n + 50) \div 32,
                      DaysBeforeMonthTable[(n + 50) \div 32]
                          + (IF (n + 50) \div 32 > 2
                                /\ (n1 = 3) /\ ((n4 # 24) \/ (n100 = 3))
                             THEN 1 ELSE 0))

\* First: the divmod chain by 146097, 36524, 1461 and 365 days.
Ord2Ymd(ordinal) ==
    Ord2YmdYear((ordinal - 1) \div 146097,
                ((ordinal - 1) % 146097) \div 36524,
                (((ordinal - 1) % 146097) % 36524) \div 1461,
                ((((ordinal - 1) % 146097) % 36524) % 1461) \div 365,
                ((((ordinal - 1) % 146097) % 36524) % 1461) % 365)

YearOf(date) == Ord2Ymd(date).year

\* date.weekday(): Monday is 0, Sunday is 6
WeekdaySundayFirst(date) == date % 7   \* (a variant counting from Sunday)
Weekday(date) == (date + 6) % 7

-----------------------------------------------------------------------------
(* Exact arithmetic for the layout: a number is <<numerator, denominator>> *)
(* with a positive denominator (the source computes in binary floating     *)
(* point; the model keeps the exact quotient)                              *)

Rat(n) == <<n, 1>>
RatSub(a, b) == <<a[1] * b[2] - b[1] * a[2], a[2] * b[2]>>
RatAdd(a, b) == <<a[1] * b[2] + b[1] * a[2], a[2] * b[2]>>
RatMul(a, b) == <<a[1] * b[1], a[2] * b[2]>>
\* a / b for b > 0
RatDiv(a, b) == <<a[1] * b[2], a[2] * b[1]>>

-----------------------------------------------------------------------------
(* Pure functions of the source                                            *)

\* back_up_to_monday: step back one day at a time until weekday() is 0
RECURSIVE back_up_to_monday(_)
back_up_to_monday(date) ==
    IF Weekday(date) # 0 THEN back_up_to_monday(date - 1) ELSE date

is_future_or_now(now, date) == now <= date
is_future(now, date) == now < date

\* The date is_current_week builds for one candidate year, as a sequence:
\* <<datetime(year, month, day)>>, and on ValueError <<datetime(year, month,
\* day - 1)>> when the day asked for is 29 February; <<>> when the error is
\* re-raised (the retried construction raising included).
is_current_week_date_no_leap_fix(year, month, day) ==
    IF DateValid(year, month, day) THEN <<Ymd2Ord(year, month, day)>>
    ELSE <<>>
is_current_week_date(year, month, day) ==
    IF DateValid(year, month, day) THEN <<Ymd2Ord(year, month, day)>>
    ELSE IF (month = 2) /\ (day = 29)
         THEN (IF DateValid(year, month, day - 1)
               THEN <<Ymd2Ord(year, month, day - 1)>>
               ELSE <<>>)
         ELSE <<>>

\* the candidate years, in the order the loop tries them
is_current_week_years_this_only(now) == <<YearOf(now)>>
is_current_week_years(now) == <<YearOf(now), YearOf(now) + 1>>

\* the test appended to ret for one candidate date
is_current_week_test_closed_end(now, date, end) == (now <= date) /\ (date <= end)
is_current_week_test(now, date, end) == (now <= date) /\ (date < end)

\* is_current_week raises: a candidate year whose date cannot be built ends
\* the call
is_current_week_raises(now, month, day) ==
    LET years == is_current_week_years(now)
    IN  \E k \in DOMAIN years : is_current_week_date(years[k], month, day) = <<>>

\* is_current_week's return value (True in ret), when it does not raise
is_current_week(now, month, day) ==
    LET end == now + 7
        years == is_current_week_years(now)
        ret == [k \in DOMAIN years |->
                   is_current_week_test(now,
                       is_current_week_date(years[k], month, day)[1], end)]
    IN  \E k \in DOMAIN ret : ret[k]

\* parse_darken_until_date, given the date its argument names ('today' or a
\* date string)
parse_darken_until_date(until_date) == back_up_to_monday(until_date)

\* draw_row's fill before the darken test: the if / elif of lines 156-161,
\* given birthdate.month and birthdate.day
draw_row_kind_newyear_first(date, month, day) ==
    IF is_current_week(date, 1, 1) THEN NEWYEAR_COLOUR
    ELSE IF is_current_week(date, month, day) THEN BIRTHDAY_COLOUR
         ELSE BACKGROUND_COLOR
draw_row_kind(date, month, day) ==
    IF is_current_week(date, month, day) THEN BIRTHDAY_COLOUR
    ELSE IF is_current_week(date, 1, 1) THEN NEWYEAR_COLOUR
         ELSE BACKGROUND_COLOR

\* draw_row's fill handed to draw_square: the darken test of lines 163-165
\* (a datetime is always truthy, so "darken_until_date and ..." tests for None)
draw_row_fill(kind, date, darken) ==
    IF darken # None /\ is_future(date, darken)
    THEN DARKENED_COLOUR_DELTA
    ELSE kind

\* draw_grid's layout, lines 189-190
draw_grid_box_size_no_pad(num_rows) ==
    RatSub(RatDiv(Rat(DOC_HEIGHT - Y_MARGIN), Rat(num_rows)), Rat(BOX_MARGIN))
draw_grid_box_size(num_rows) ==
    RatSub(RatDiv(Rat(DOC_HEIGHT - (Y_MARGIN + 36)), Rat(num_rows)), Rat(BOX_MARGIN))

draw_grid_x_margin(box) ==
    RatDiv(RatSub(Rat(DOC_WIDTH),
                  RatMul(RatAdd(box, Rat(BOX_MARGIN)), Rat(NUM_COLUMNS))),
           Rat(2))

-----------------------------------------------------------------------------
(* Inputs                                                                  *)

\* birth dates given on the command line (parse_date accepts any valid date)
BirthDates ==
    { Ymd2Ord(1990, 6, 15),   \* a Friday in mid-year
      Ymd2Ord(1990, 5, 30),   \* birthday week of 2024 starts Monday 2024-05-27
      Ymd2Ord(1989, 1, 2),    \* a Monday right after New Year
      Ymd2Ord(2000, 1, 1),    \* New Year's Day
      Ymd2Ord(1996, 12, 31),  \* New Year's Eve, a Tuesday
      Ymd2Ord(1988, 2, 29) }  \* leap day

\* -d/--darken-until: absent, or a date (here Wednesday 2024-06-05)
DarkenArgs == { None, Ymd2Ord(2024, 6, 5) }

\* the birth dates tried with every darken argument; the others are tried
\* without one
DarkenedBirthDates == { Ymd2Ord(1990, 5, 30), Ymd2Ord(2000, 1, 1) }

\* the (birth date, darken argument) pairs of the invocations explored
Invocations ==
    { <<b, None>> : b \in BirthDates } \cup (DarkenedBirthDates \X DarkenArgs)

\* lengths of the title: the longest accepted and the shortest rejected
TitleLens == { MAX_TITLE_SIZE, MAX_TITLE_SIZE + 1 }

\* ages handed to gen_calendar: the whole accepted range and its neighbours
Ages == (MIN_AGE - 1) .. (MAX_AGE + 1)

\* the smallest row count whose box size is not positive
TooManyRows == 368

\* the dates the pure date functions are tried on: FnSpan + 1 consecutive
\* days from 2023-02-01 (a non-leap February, two year ends, a leap February)
FnSpan == 710
FnDates == Ymd2Ord(2023, 2, 1) .. (Ymd2Ord(2023, 2, 1) + FnSpan)

\* row counts handed to draw_grid when it is called on its own
GridRows == { MIN_AGE, TooManyRows }

-----------------------------------------------------------------------------
(* State                                                                   *)

VARIABLES
    pc,                \* where the invocation stands
    title_len,         \* len(title)
    age,               \* the age argument
    birthdate,         \* the birthdate argument
    darken_until_date, \* the darken_until_date argument (None when absent)
    surface,           \* the PDF surface has been created
    drawn,             \* some canvas operation has been issued
    out,               \* the lines main has printed
    num_rows,          \* draw_grid: num_rows
    box_size,          \* draw_grid: box_size
    x_margin,          \* draw_grid: x_margin
    date,              \* draw_grid: date, the row cursor
    i,                 \* draw_grid: the row loop's index
    labels,            \* row labels shown so far
    label,             \* the date of the last row label shown
    row_date,          \* draw_row: date, its own cursor
    col,               \* draw_row: the column loop's index
    squares,           \* grid squares drawn so far
    square,            \* the last grid square drawn
    marks,             \* what the current row holds so far, and the row before
    fn                 \* a pure function under test: its inputs and result

vars == <<pc, title_len, age, birthdate, darken_until_date, surface, drawn, out,
          num_rows, box_size, x_margin, date, i, labels, label, row_date, col,
          squares, square, marks, fn>>

args == <<title_len, age, birthdate, darken_until_date>>
grid == <<num_rows, box_size, x_margin, date, i, labels, label>>
row == <<row_date, col, squares, square, marks>>

NoSquare == [row |-> -1, col |-> -1, date |-> None, kind |-> "", fill |-> ""]
NoMarks == [birthdays |-> 0, newyears |-> 0, birthday_col |-> -1,
            prev_birthday_col |-> -1]
NoFn == [name |-> "", now |-> None, month |-> 0, day |-> 0, date |-> None,
         ret |-> ""]

\* nothing drawn, nothing printed, no call in progress
Fresh ==
    /\ surface = FALSE
    /\ drawn = FALSE
    /\ out = <<>>
    /\ num_rows = 0
    /\ box_size = Rat(0)
    /\ x_margin = Rat(0)
    /\ date = None
    /\ i = 0
    /\ labels = 0
    /\ label = None
    /\ row_date = None
    /\ col = 0
    /\ squares = 0
    /\ square = NoSquare
    /\ marks = NoMarks

\* main, with the arguments parsed (argparse has applied parse_date and
\* parse_darken_until_date), about to call gen_calendar
Init ==
    /\ pc = "gen_calendar"
    /\ title_len \in TitleLens
    /\ age \in Ages
    /\ \E inv \in Invocations :
           /\ birthdate = inv[1]
           /\ darken_until_date =
                  IF inv[2] = None THEN None ELSE parse_darken_until_date(inv[2])
    /\ Fresh
    /\ fn = NoFn

-----------------------------------------------------------------------------
(* gen_calendar, called from main's try block                              *)

\* lines 247-249, caught at 334-336
GenCalendarTitleTooLong ==
    /\ pc = "gen_calendar"
    /\ title_len > MAX_TITLE_SIZE
    /\ out' = Append(out, "Error")
    /\ pc' = "exit"
    /\ UNCHANGED <<args, surface, drawn, grid, row, fn>>

\* lines 251-253, caught at 334-336
GenCalendarAgeInvalid ==
    /\ pc = "gen_calendar"
    /\ ~(title_len > MAX_TITLE_SIZE)
    /\ (age < MIN_AGE) \/ (age > MAX_AGE)
    /\ out' = Append(out, "Error")
    /\ pc' = "exit"
    /\ UNCHANGED <<args, surface, drawn, grid, row, fn>>

\* (a variant that creates the surface without looking at the age)
GenCalendarBeginUnchecked ==
    /\ pc = "gen_calendar"
    /\ ~(title_len > MAX_TITLE_SIZE)
    /\ surface' = TRUE
    /\ drawn' = TRUE
    /\ date' = back_up_to_monday(birthdate)
    /\ pc' = "draw_grid"
    /\ UNCHANGED <<args, out, num_rows, box_size, x_margin, i, labels, label,
                   row, fn>>

\* lines 255-281: the surface, the background, the title and subtitle, the
\* start date, and the call of draw_grid
GenCalendarBegin ==
    /\ pc = "gen_calendar"
    /\ ~(title_len > MAX_TITLE_SIZE)
    /\ ~((age < MIN_AGE) \/ (age > MAX_AGE))
    /\ surface' = TRUE
    /\ drawn' = TRUE
    /\ date' = back_up_to_monday(birthdate)
    /\ pc' = "draw_grid"
    /\ UNCHANGED <<args, out, num_rows, box_size, x_margin, i, labels, label,
                   row, fn>>

-----------------------------------------------------------------------------
(* draw_grid                                                               *)

\* lines 188-223: the layout, the key and the week numbers
DrawGridLayout ==
    /\ pc = "draw_grid"
    /\ num_rows' = age
    /\ box_size' = draw_grid_box_size(age)
    /\ x_margin' = draw_grid_x_margin(draw_grid_box_size(age))
    /\ drawn' = TRUE
    /\ i' = 0
    /\ pc' = "draw_grid_rows"
    /\ UNCHANGED <<args, surface, out, date, labels, label, row, fn>>

\* lines 225-237: the row's label, and the call of draw_row with a copy of date
DrawGridRow ==
    /\ pc = "draw_grid_rows"
    /\ i < num_rows
    /\ label' = date
    /\ labels' = labels + 1
    /\ row_date' = date
    /\ col' = 0
    /\ marks' = [NoMarks EXCEPT !.prev_birthday_col = marks.birthday_col]
    /\ pc' = "draw_row"
    /\ UNCHANGED <<args, surface, drawn, out, num_rows, box_size, x_margin, date,
                   i, squares, square, fn>>

\* lines 155-169: one square of the row.  is_current_week raising would end
\* the invocation in main's except clause; it cannot raise here, the birth
\* date being a date of the calendar (only 29 February is missing from some
\* years, and that is handled) and 1 January being a day of every year.
DrawRowSquare ==
    /\ pc = "draw_row"
    /\ col < NUM_COLUMNS
    /\ \E birth \in { Ord2Ymd(birthdate) } :
       \E kind \in { draw_row_kind(row_date, birth.month, birth.day) } :
       \E fill \in { draw_row_fill(kind, row_date, darken_until_date) } :
           /\ ~is_current_week_raises(row_date, birth.month, birth.day)
           /\ square' = [row |-> i, col |-> col, date |-> row_date,
                         kind |-> kind, fill |-> fill]
           /\ marks' = [marks EXCEPT
                  !.birthdays = @ + (IF kind = BIRTHDAY_COLOUR THEN 1 ELSE 0),
                  !.newyears = @ + (IF kind = NEWYEAR_COLOUR THEN 1 ELSE 0),
                  !.birthday_col = IF kind = BIRTHDAY_COLOUR THEN col ELSE @]
    /\ squares' = squares + 1
    /\ col' = col + 1
    /\ row_date' = row_date + 7
    /\ UNCHANGED <<pc, args, surface, drawn, out, grid, fn>>

\* (a variant in which draw_row advances draw_grid's own cursor)
DrawGridNextRowSharedCursor ==
    /\ pc = "draw_row"
    /\ ~(col < NUM_COLUMNS)
    /\ date' = row_date + 7 * 52
    /\ i' = i + 1
    /\ pc' = "draw_grid_rows"
    /\ UNCHANGED <<args, surface, drawn, out, num_rows, box_size, x_margin,
                   labels, label, row, fn>>

\* draw_row returns; lines 239-241
DrawGridNextRow ==
    /\ pc = "draw_row"
    /\ ~(col < NUM_COLUMNS)
    /\ date' = date + 7 * 52
    /\ i' = i + 1
    /\ pc' = "draw_grid_rows"
    /\ UNCHANGED <<args, surface, drawn, out, num_rows, box_size, x_margin,
                   labels, label, row, fn>>

\* line 243
DrawGridReturn ==
    /\ pc = "draw_grid_rows"
    /\ ~(i < num_rows)
    /\ pc' = "draw_grid_returned"
    /\ UNCHANGED <<args, surface, drawn, out, grid, row, fn>>

\* lines 283-292 and 338: the sidebar, the page, and main's report
GenCalendarEnd ==
    /\ pc = "draw_grid_returned"
    /\ out' = Append(out, "Created")
    /\ pc' = "exit"
    /\ UNCHANGED <<args, surface, drawn, grid, row, fn>>

Next ==
    \/ GenCalendarTitleTooLong
    \/ GenCalendarAgeInvalid
    \/ GenCalendarBegin
    \/ DrawGridLayout
    \/ DrawGridRow
    \/ DrawRowSquare
    \/ DrawGridNextRow
    \/ DrawGridReturn
    \/ GenCalendarEnd

Spec == Init /\ [][Next]_vars

-----------------------------------------------------------------------------
(* draw_grid called on its own (it is a module-level function), with a row *)
(* count of the caller's choosing                                          *)

InitGrid ==
    /\ pc = "draw_grid"
    /\ title_len = MAX_TITLE_SIZE
    /\ age \in GridRows
    /\ birthdate = Ymd2Ord(1990, 6, 15)
    /\ darken_until_date = None
    /\ surface = TRUE
    /\ drawn = FALSE
    /\ out = <<>>
    /\ num_rows = 0
    /\ box_size = Rat(0)
    /\ x_margin = Rat(0)
    /\ date = back_up_to_monday(Ymd2Ord(1990, 6, 15))
    /\ i = 0
    /\ labels = 0
    /\ label = None
    /\ row_date = None
    /\ col = 0
    /\ squares = 0
    /\ square = NoSquare
    /\ marks = NoMarks
    /\ fn = NoFn

NextGrid ==
    \/ DrawGridLayout
    \/ DrawGridRow
    \/ DrawRowSquare
    \/ DrawGridNextRow
    \/ DrawGridReturn

SpecGrid == InitGrid /\ [][NextGrid]_vars

-----------------------------------------------------------------------------
(* is_current_week on its own: every date of FnDates with every month and  *)
(* every day number 1..31                                                  *)

InitWeek ==
    /\ pc = "fn"
    /\ title_len = MAX_TITLE_SIZE
    /\ age = MIN_AGE
    /\ birthdate = Ymd2Ord(1990, 6, 15)
    /\ darken_until_date = None
    /\ Fresh
    /\ \E now \in FnDates, month \in 1..12, day \in 1..31 :
           fn = [name |-> "is_current_week", now |-> now, month |-> month,
                 day |-> day, date |-> None, ret |-> ""]

\* line 127: the ValueError leaves the function
IsCurrentWeekRaise ==
    /\ fn.name = "is_current_week"
    /\ fn.ret = ""
    /\ is_current_week_raises(fn.now, fn.month, fn.day)
    /\ fn' = [fn EXCEPT !.ret = "ValueError"]
    /\ UNCHANGED <<pc, args, surface, drawn, out, grid, row>>

\* line 131
IsCurrentWeekReturn ==
    /\ fn.name = "is_current_week"
    /\ fn.ret = ""
    /\ ~is_current_week_raises(fn.now, fn.month, fn.day)
    /\ fn' = [fn EXCEPT !.ret = IF is_current_week(fn.now, fn.month, fn.day)
                                 THEN "True" ELSE "False"]
    /\ UNCHANGED <<pc, args, surface, drawn, out, grid, row>>

NextWeek == IsCurrentWeekRaise \/ IsCurrentWeekReturn

SpecWeek == InitWeek /\ [][NextWeek]_vars

-----------------------------------------------------------------------------
(* back_up_to_monday on its own, one iteration of its loop at a time:      *)
(* fn.now is the argument, fn.date the local variable                      *)

InitMonday ==
    /\ pc = "fn"
    /\ title_len = MAX_TITLE_SIZE
    /\ age = MIN_AGE
    /\ birthdate = Ymd2Ord(1990, 6, 15)
    /\ darken_until_date = None
    /\ Fresh
    /\ \E d \in FnDates :
           fn = [name |-> "back_up_to_monday", now |-> d, month |-> 0,
                 day |-> 0, date |-> d, ret |-> ""]

\* lines 106-107
BackUpToMondayStep ==
    /\ fn.name = "back_up_to_monday"
    /\ fn.ret = ""
    /\ Weekday(fn.date) # 0
    /\ fn' = [fn EXCEPT !.date = @ - 1]
    /\ UNCHANGED <<pc, args, surface, drawn, out, grid, row>>

\* line 108
BackUpToMondayReturn ==
    /\ fn.name = "back_up_to_monday"
    /\ fn.ret = ""
    /\ ~(Weekday(fn.date) # 0)
    /\ fn' = [fn EXCEPT !.ret = "returned"]
    /\ UNCHANGED <<pc, args, surface, drawn, out, grid, row>>

NextMonday == BackUpToMondayStep \/ BackUpToMondayReturn

SpecMonday == InitMonday /\ [][NextMonday]_vars

-----------------------------------------------------------------------------
(* Properties                                                              *)

\* 2024-01-01 was a Monday
IsMonday(d) == (d - Ymd2Ord(2024, 1, 1)) % 7 = 0

\* the Monday on or before a date
MondayOnOrBefore(d) == d - ((d - Ymd2Ord(2024, 1, 1)) % 7)

\* (month, day) names a day of some year
ValidMonthDay(month, day) ==
    (month \in 1..12) /\ (day >= 1) /\ (day <= DaysInMonth(2000, month))

\* One of the seven days now .. now + 6 lies in the year of now or the next
\* and is the day (month, day) of its year, 28 February standing for
\* 29 February in a year that has none.
WeekHolds(now, month, day) ==
    \E this \in { YearOf(now) } :
    \E d \in now .. (now + 6) :
    \E ymd \in { Ord2Ymd(d) } :
        /\ ymd.year \in { this, this + 1 }
        /\ \/ (ymd.month = month) /\ (ymd.day = day)
           \/ /\ (month = 2) /\ (day = 29)
              /\ ~IsLeap(ymd.year)
              /\ (ymd.month = 2) /\ (ymd.day = 28)

\* draw_row has drawn the last square of the current row
RowDone == (pc = "draw_row") /\ (col = NUM_COLUMNS)

\* C1: the grid is drawn row by row, 52 squares to a row: the k-th square
\* drawn is the one at (row, col) with k = 52 * row + col + 1, it is dated
\* start + 7 * (52 * row + col) days, a Monday, and the label of row r is
\* dated start + 7 * 52 * r days, where start is the Monday on or before the
\* birth date; running through, the grid has age rows and 52 * age squares.
C1_RowMajorDates ==
    \A start \in { MondayOnOrBefore(birthdate) } :
        /\ (squares > 0) =>
               /\ square.row \in 0 .. (age - 1)
               /\ square.col \in 0 .. 51
               /\ squares = 52 * square.row + square.col + 1
               /\ square.date = start + 7 * (52 * square.row + square.col)
               /\ IsMonday(square.date)
        /\ (labels > 0) =>
               /\ label = start + 7 * 52 * (labels - 1)
               /\ labels \in { i, i + 1 }
        /\ (pc = "draw_grid_returned" \/ (pc = "exit" /\ surface)) =>
               /\ age \in 80 .. 100
               /\ labels = age
               /\ squares = 52 * age

C1_LastSquare ==
    /\ pc = "exit"
    /\ age = 100
    /\ squares = 5200
    /\ square.row = 99
    /\ square.col = 51
    /\ square.date = MondayOnOrBefore(birthdate) + 7 * 5199

\* C2: for a day (month, day) of the calendar, is_current_week(now, month,
\* day) raises nothing and is true exactly when an occurrence of the day in
\* the year of now or the next lies in [now, now + 7 days), 28 February
\* standing for 29 February in a year without one; it is true of
\* 2023-02-28 and 29 February.
C2_WeekOfOccurrence ==
    (fn.name = "is_current_week" /\ fn.ret # "" /\ ValidMonthDay(fn.month, fn.day)) =>
        /\ fn.ret = IF WeekHolds(fn.now, fn.month, fn.day) THEN "True" ELSE "False"
        /\ (fn.now = Ymd2Ord(2023, 2, 28) /\ fn.month = 2 /\ fn.day = 29)
               => fn.ret = "True"

C2_LeapDayIn2023 ==
    /\ fn.name = "is_current_week"
    /\ fn.now = Ymd2Ord(2023, 2, 28)
    /\ fn.month = 2
    /\ fn.day = 29
    /\ fn.ret = "True"

\* C3: a square is classified Birthday when its week holds the birthday,
\* whether or not it also holds 1 January; NewYear when it holds 1 January
\* and not the birthday; Ordinary otherwise.
C3_BirthdayBeforeNewYear ==
    (squares > 0) =>
        \A birth \in { Ord2Ymd(birthdate) } :
            square.kind =
                IF WeekHolds(square.date, birth.month, birth.day)
                THEN BIRTHDAY_COLOUR
                ELSE IF WeekHolds(square.date, 1, 1) THEN NEWYEAR_COLOUR
                     ELSE BACKGROUND_COLOR

C3_BornOnNewYearsDay ==
    /\ squares > 0
    /\ birthdate = Ymd2Ord(2000, 1, 1)
    /\ WeekHolds(square.date, 1, 1)
    /\ square.row > 0
    /\ square.kind = BIRTHDAY_COLOUR

\* C4: the fill handed to draw_square is the elapsed fill exactly when a
\* darken-until date is given and the square's date is strictly before it,
\* whatever the square's classification; otherwise it is the fill of the
\* classification.
C4_ElapsedOverride ==
    (squares > 0) =>
        /\ (square.fill = DARKENED_COLOUR_DELTA)
               <=> (darken_until_date # None /\ square.date < darken_until_date)
        /\ (square.fill # DARKENED_COLOUR_DELTA) => (square.fill = square.kind)

C4_ElapsedBirthday ==
    /\ darken_until_date = Ymd2Ord(2024, 6, 3)
    /\ square.date = Ymd2Ord(2024, 5, 27)
    /\ square.kind = BIRTHDAY_COLOUR
    /\ square.fill = DARKENED_COLOUR_DELTA

\* C5: back_up_to_monday never moves more than 6 days back from its
\* argument (so its loop ends within 6 iterations), and what it returns is a
\* Monday, the argument itself when that is a Monday; the function used for
\* the grid's start date and the darken-until date returns the same date.
C5_BackUpToMonday ==
    (fn.name = "back_up_to_monday") =>
        /\ fn.date <= fn.now
        /\ fn.now - fn.date < 7
        /\ (fn.ret = "") => (fn.date >= MondayOnOrBefore(fn.now))
        /\ (fn.ret = "returned") =>
               /\ IsMonday(fn.date)
               /\ IsMonday(fn.now) => (fn.date = fn.now)
               /\ fn.date = back_up_to_monday(fn.now)
               /\ fn.date = parse_darken_until_date(fn.now)

C5_SundayBackedUp ==
    /\ fn.name = "back_up_to_monday"
    /\ fn.ret = "returned"
    /\ fn.now - fn.date = 6

\* C6: once the layout is computed, box_size = (2383 - 180) / num_rows - 6
\* exactly, it is positive, it is 21.5375 for 80 rows, and
\* x_margin = (1683 - (box_size + 6) * 52) / 2.
C6_BoxSize ==
    (num_rows # 0) =>
        /\ num_rows \in 80 .. 100
        /\ box_size[2] > 0
        /\ box_size[1] > 0
        /\ box_size[1] * num_rows = ((2383 - 180) - 6 * num_rows) * box_size[2]
        /\ (num_rows = 80) => (box_size[1] * 10000 = 215375 * box_size[2])
        /\ x_margin[2] > 0
        /\ 2 * x_margin[1] * box_size[2]
               = (1683 * box_size[2] - (box_size[1] + 6 * box_size[2]) * 52)
                     * x_margin[2]

C6_EightyRows ==
    /\ num_rows = 80
    /\ box_size[1] * 10000 = 215375 * box_size[2]
    /\ squares = 52 * 80

C8_ConfigErrorBeforeCanvas ==
    /\ ((title_len > 30) \/ (age < 80) \/ (age > 100)) =>
           /\ ~surface
           /\ ~drawn
           /\ squares = 0
           /\ labels = 0
           /\ pc \in { "gen_calendar", "exit" }
           /\ (pc = "gen_calendar") => (out = <<>>)
           /\ (pc = "exit") => (out = <<"Error">>)
    /\ (\E k \in DOMAIN out : out[k] = "Error") => (~surface /\ ~drawn)

C8_AgeRejected ==
    /\ pc = "exit"
    /\ age = 101
    /\ title_len = 30
    /\ out = <<"Error">>
    /\ ~surface

\* C9 as claimed: with no darken date, row 0 holds one Birthday square and
\* one NewYear square, unless the birthday week holds 1 January, and then it
\* holds one Birthday square and no NewYear square.
C9_RowZeroOneOfEach ==
    (RowDone /\ i = 0 /\ darken_until_date = None) =>
        /\ marks.birthdays = 1
        /\ marks.newyears =
               IF WeekHolds(MondayOnOrBefore(birthdate), 1, 1) THEN 0 ELSE 1

\* C9 as amended: with no darken date, row 0 holds one Birthday square, its
\* first, and at most one NewYear square: one when the 1 January after the
\* start date falls in the weeks of columns 1..51, that is in
\* [start + 7 days, start + 364 days), and none when it falls in the
\* birthday week or after the row's 364 days.
C9_RowZeroMarks ==
    (RowDone /\ i = 0 /\ darken_until_date = None) =>
        \A start \in { MondayOnOrBefore(birthdate) } :
        \A jan1 \in { Ymd2Ord(YearOf(start) + 1, 1, 1) } :
            /\ marks.birthdays = 1
            /\ marks.birthday_col = 0
            /\ marks.newyears =
                   IF (start + 7 <= jan1) /\ (jan1 < start + 364) THEN 1 ELSE 0

C9_Born1990 ==
    /\ RowDone
    /\ i = 0
    /\ darken_until_date = None
    /\ birthdate = Ymd2Ord(1990, 6, 15)
    /\ age = 90
    /\ label = Ymd2Ord(1990, 6, 11)
    /\ marks.birthdays = 1
    /\ marks.newyears = 1

\* C10: no row ever holds two Birthday squares, every finished row holds
\* one, and its column is not to the left of the one in the row above.
C10_OneBirthdayPerRow ==
    /\ marks.birthdays <= 1
    /\ RowDone =>
           /\ marks.birthdays = 1
           /\ marks.birthday_col >= marks.prev_birthday_col

C10_LeapDayLastRow ==
    /\ RowDone
    /\ i = 99
    /\ birthdate = Ymd2Ord(1988, 2, 29)
    /\ marks.birthdays = 1
    /\ marks.birthday_col > 0
    /\ marks.prev_birthday_col >= 0

====
